---- MODULE Spec2Model ----
(***************************************************************************)
(* A model of the LIN master interface of src/src/Lin_Interface.cpp:       *)
(* the frame codec (getProtectedID, getChecksum), the receive parser       *)
(* (listenBus) and the serial transport it polls.                          *)
(*                                                                         *)
(* Bytes are naturals in 0..255; uint8_t / uint16_t arithmetic is written  *)
(* with explicit % 256 / % 65536 where the C code truncates.               *)
(***************************************************************************)
EXTENDS Integers, Sequences, FiniteSets, TLC

VARIABLES
    pc,              \* position of the program
    LinMessage,      \* uint8_t LinMessage[8 + 1 + 4]
    LinMessageID,    \* uint8_t LinMessageID
    LinMessageSize,  \* uint8_t LinMessageSize
    arg,             \* argument byte of a codec call (FrameID, or the checksum seed)
    dataLen,         \* dataLen argument of a codec call
    cksum,           \* value returned by getChecksum
    swaps,           \* number of payload transpositions applied by the caller
    ProtectedID,     \* local ProtectedID (listenBus, writeFrame) / parameter of getChecksum
    bytes_received,  \* local of listenBus
    ChecksumValid,   \* local of listenBus, its return value
    timedOut,        \* local of listenBus
    rxbuf,           \* the transport's receive FIFO (HardwareSerial::available/read)
    wire,            \* bytes on the bus that have not reached the FIFO yet
    scn,             \* what the bus carries in this behaviour (never changes)
    txn,             \* number of listenBus calls started
    byteSeen,        \* a byte was available to the transport during this call
    collected,       \* number of bytes stored after the identifier in this call
    parsedAny,       \* the parse loop of this call has consumed a byte
    drained,         \* bytes read and discarded by the drain loop of this call
    gapped,          \* a wait of the program expired while bytes were still to come:
                     \* "no", "noise" (before the break byte arrived) or "frame"
    stored,          \* the bytes stored after the identifier in this call, in order
    baud,            \* unsigned long baud
    todo,            \* transport calls the running transmit function still has to make
    txq,             \* bytes written to the UART and not yet shifted out
    linerate,        \* the baud rate the UART is running at
    txlog,           \* the transport calls made so far, in order
    sentlog,         \* the bytes shifted out so far, each with the rate it went out at
    RX_Sync,         \* local of writeFrame
    RX_ProtectedID,  \* local of writeFrame
    moreData,        \* local of writeFrame
    Checksum_received, \* local of writeFrame
    ChkSumCalc,      \* local of writeFrame
    mismatch,        \* writeFrame has printed its "!= ChkSum calc" diagnostic
    idxMin,          \* lowest index used on LinMessage by writeFrame and its callees
    idxMax           \* highest index used on LinMessage by writeFrame and its callees

objVars   == <<LinMessage, LinMessageID, LinMessageSize>>
codecVars == <<arg, dataLen, cksum, swaps>>
localVars == <<ProtectedID, bytes_received, ChecksumValid, timedOut>>
busVars   == <<rxbuf, wire, scn>>
ghostVars == <<txn, byteSeen, collected, parsedAny, drained, gapped, stored>>
uartVars  == <<baud, todo, txq, linerate, txlog, sentlog>>
echoVars  == <<RX_Sync, RX_ProtectedID, moreData, Checksum_received, ChkSumCalc,
               mismatch, idxMin, idxMax>>
txVars    == <<uartVars, echoVars>>
vars      == <<pc, objVars, codecVars, localVars, busVars, ghostVars, txVars>>

(***************************************************************************)
(* Bounds of the model.                                                    *)
(***************************************************************************)
MaxLen    == 3    \* payloads up to this length are enumerated over ByteVals
MaxSwaps  == 1    \* transpositions a caller applies to one payload
MaxStray  == 1    \* stray bytes in front of a frame
MaxExtra  == 3    \* bytes a slave sends beyond 8 data bytes + checksum
MaxTxn    == 2    \* listenBus calls in one behaviour
MaxFifo   == 2    \* FIFO occupancy while an endless noise source is attached

(***************************************************************************)
(* Program constants.                                                      *)
(***************************************************************************)
BufSize     == 13   \* 8 + 1 + 4, size of LinMessage
MaxData     == 8    \* data bytes of a frame
\* mutant: the loop is left one byte later, bytes_received > (8 + 1)
MaxReceived_late == 8 + 1 + 1
MaxReceived == 9    \* (8 + 1): 8 data bytes and the checksum
SyncByte    == 85   \* 0x55
ClassicFrom == 60   \* 0x3C: first identifier with the classic checksum
SimId       == 34   \* 0x22, identifier of the simulated frame
DefaultBaud == 19200 \* unsigned long baud = 19200
EchoLimit   == 13   \* 8 + 1 + 4: bytes writeFrame stores from the echo

Byte     == 0..255
BufIndex == 0..(BufSize - 1)
ZeroBuf  == [i \in BufIndex |-> 0]

\* Byte values the enumerated payloads are built from.
ByteVals == {0, 1, 255}
\* Payload of the simulated frame, followed by the filler of its 12-byte buffer.
SimBuf   == <<171, 132, 30, 244, 46, 132, 122, 85, 0, 0, 0, 0>>
AllFF    == <<255, 255, 255, 255, 255, 255, 255, 255>>

\* The buffer holding the bytes of sequence s from index 0 on, zero elsewhere.
BufOf(s) == [i \in BufIndex |-> IF i < Len(s) THEN s[i + 1] ELSE 0]

(***************************************************************************)
(* Bit operations of C on naturals.                                        *)
(***************************************************************************)
RECURSIVE Pow2(_)
Pow2(n) == IF n = 0 THEN 1 ELSE 2 * Pow2(n - 1)

bitRead(value, bit) == (value \div Pow2(bit)) % 2

RECURSIVE BitOr(_, _)
BitOr(a, b) ==
    IF a = 0 THEN b
    ELSE IF b = 0 THEN a
    ELSE (IF (a % 2 = 1) \/ (b % 2 = 1) THEN 1 ELSE 0) + 2 * BitOr(a \div 2, b \div 2)

\* a ^ b on single bits
Xor(a, b) == (a + b) % 2

\* ~x of a 0..255 value, stored back into a uint8_t
Not8(x) == (-1 - x) % 256

(***************************************************************************)
(* getProtectedID                                                          *)
(***************************************************************************)
ParityP0(FrameID) ==
    Xor(Xor(Xor(bitRead(FrameID, 0), bitRead(FrameID, 1)), bitRead(FrameID, 2)),
        bitRead(FrameID, 4))

\* mutant: the complement of the second parity bit is forgotten
ParityP1_plain(FrameID) ==
    Xor(Xor(Xor(bitRead(FrameID, 1), bitRead(FrameID, 3)), bitRead(FrameID, 4)),
        bitRead(FrameID, 5))

ParityP1(FrameID) ==
    Not8(Xor(Xor(Xor(bitRead(FrameID, 1), bitRead(FrameID, 3)), bitRead(FrameID, 4)),
             bitRead(FrameID, 5)))

getProtectedID(FrameID) ==
    BitOr(BitOr(ParityP1(FrameID) * 128, ParityP0(FrameID) * 64), FrameID % 64) % 256

(***************************************************************************)
(* getChecksum                                                             *)
(***************************************************************************)
\* mutant: the boundary identifier 0x3C is still summed
ModeSeed_above(pid) == IF (pid % 64) > ClassicFrom THEN 0 ELSE pid

\* the seed after the classic-checksum test on the identifier bits
ModeSeed(pid) == IF (pid % 64) >= ClassicFrom THEN 0 ELSE pid

\* mutant: pre-decrement, the byte at index 0 is never added
RECURSIVE AddBytes_skipFirst(_, _, _)
AddBytes_skipFirst(msg, len, sum) ==
    IF len - 1 > 0
    THEN AddBytes_skipFirst(msg, len - 1, (sum + msg[len - 1]) % 65536)
    ELSE sum

\* while (dataLen-- > 0) sum += LinMessage[dataLen];   (uint16_t sum)
RECURSIVE AddBytes(_, _, _)
AddBytes(msg, len, sum) ==
    IF len > 0 THEN AddBytes(msg, len - 1, (sum + msg[len - 1]) % 65536) ELSE sum

\* mutant: the carry is dropped instead of added back
FoldCarry_drop(sum) == sum % 256

\* while (sum >> 8) sum = (sum & 0xFF) + (sum >> 8);
RECURSIVE FoldCarry(_)
FoldCarry(sum) ==
    IF sum \div 256 > 0 THEN FoldCarry((sum % 256) + (sum \div 256)) ELSE sum

\* getChecksum over an explicit buffer
ChecksumOf(msg, pid, len) == Not8(FoldCarry(AddBytes(msg, len, ModeSeed(pid))))

\* getChecksum(ProtectedID, dataLen), reading the member LinMessage
getChecksum(pid, len) == ChecksumOf(LinMessage, pid, len)

\* mutant: the complement of the computed checksum is forgotten
ChecksumOK_plain(Checksum, computed) == 255 = (Checksum + computed) % 256

\* 0xFF == (uint8_t)(Checksum + ~getChecksum(...))
ChecksumOK(Checksum, computed) == 255 = (Checksum + (-1 - computed)) % 256

(***************************************************************************)
(* The codec called on its own: a caller fills LinMessage, then derives    *)
(* the protected identifier and the checksum the way writeFrame does, or   *)
(* calls getChecksum with a seed of its choice.                            *)
(***************************************************************************)
\* Payloads a caller may have put in LinMessage: every sequence over ByteVals
\* up to MaxLen bytes, and every prefix of two full-length frames.
ShortPayloads == UNION {[1..n -> ByteVals] : n \in 0..MaxLen}
LongPayloads  == {SubSeq(f, 1, n) : f \in {SubSeq(SimBuf, 1, MaxData), AllFF}, n \in 0..MaxData}
Payloads      == ShortPayloads \cup LongPayloads

\* the transmit side at rest: nothing queued, nothing logged
IdleTx ==
    /\ baud = DefaultBaud /\ linerate = DefaultBaud
    /\ todo = <<>> /\ txq = <<>> /\ txlog = <<>> /\ sentlog = <<>>
    /\ RX_Sync = 0 /\ RX_ProtectedID = 0 /\ moreData = FALSE
    /\ Checksum_received = 0 /\ ChkSumCalc = 0 /\ mismatch = FALSE
    /\ idxMin = 0 /\ idxMax = 0

IdleRx ==
    /\ ProtectedID = 0 /\ bytes_received = -4
    /\ ChecksumValid = FALSE /\ timedOut = FALSE
    /\ rxbuf = <<>> /\ wire = <<>>
    /\ txn = 0 /\ byteSeen = FALSE /\ collected = 0
    /\ parsedAny = FALSE /\ drained = 0 /\ gapped = "no" /\ stored = <<>>
    /\ IdleTx

InitCodec ==
    /\ pc = "args"
    /\ \E p \in Payloads : LinMessage = BufOf(p) /\ dataLen = Len(p)
    /\ arg \in Byte
    /\ LinMessageID = 0 /\ LinMessageSize = 0
    /\ cksum = 0 /\ swaps = 0
    /\ scn = [kind |-> "codec"]
    /\ IdleRx

\* getChecksum(arg, dataLen) with the caller's seed
CallChecksum ==
    /\ pc = "args"
    /\ ProtectedID' = arg
    /\ cksum' = getChecksum(arg, dataLen)
    /\ pc' = "checksum"
    /\ UNCHANGED <<objVars, arg, dataLen, swaps, bytes_received, ChecksumValid,
                   timedOut, busVars, ghostVars>>
    /\ UNCHANGED txVars

\* the first two statements of writeFrame(arg, dataLen)
CallFrame ==
    /\ pc = "args"
    /\ ProtectedID' = getProtectedID(arg)
    /\ cksum' = getChecksum(getProtectedID(arg), dataLen)
    /\ pc' = "frame"
    /\ UNCHANGED <<objVars, arg, dataLen, swaps, bytes_received, ChecksumValid,
                   timedOut, busVars, ghostVars>>
    /\ UNCHANGED txVars

\* the caller exchanges two payload bytes and asks for the checksum again
SwapBytes(i, j) ==
    /\ pc = "checksum"
    /\ swaps < MaxSwaps
    /\ i < j /\ j < dataLen
    /\ LinMessage' = [LinMessage EXCEPT ![i] = LinMessage[j], ![j] = LinMessage[i]]
    /\ cksum' = ChecksumOf(LinMessage', ProtectedID, dataLen)
    /\ swaps' = swaps + 1
    /\ UNCHANGED <<pc, LinMessageID, LinMessageSize, arg, dataLen, localVars,
                   busVars, ghostVars>>
    /\ UNCHANGED txVars

NextCodec ==
    \/ CallChecksum
    \/ CallFrame
    \/ \E i, j \in 0..(MaxData - 1) : SwapBytes(i, j)

SpecCodec == InitCodec /\ [][NextCodec]_vars

(***************************************************************************)
(* The bus seen by listenBus.  A behaviour carries one of:                 *)
(*   silent   nothing is ever received                                     *)
(*   frame    stray non-zero bytes, then 0x00 0x55 pid and n further bytes *)
(*   endless  a noise source that can always deliver another stray byte    *)
(* Bytes reach the FIFO one by one at times the program does not control.  *)
(***************************************************************************)
StrayVals == {SyncByte, 66}
Strays    == UNION {[1..n -> StrayVals] : n \in 0..MaxStray}
\* 0xE2, 0x3C, 0x55 (identifier 0x15, equal to the sync byte) and 0x00
PidVals   == {getProtectedID(SimId), getProtectedID(ClassicFrom), getProtectedID(21), 0}
MaxBody   == MaxReceived + MaxExtra

\* the i-th byte a slave sends beyond data and checksum
ExtraByte(i) == 160 + i

\* The n bytes that follow the identifier: up to 8 data bytes of the simulated
\* frame, one checksum byte (right, or off by one), then extra bytes.
Body(pid, n, ok) ==
    IF n = 0 THEN <<>>
    ELSE LET k    == IF n - 1 < MaxData THEN n - 1 ELSE MaxData
             data == SubSeq(SimBuf, 1, k)
             c    == ChecksumOf(BufOf(data), pid, k)
         IN  data \o <<IF ok THEN c ELSE (c + 1) % 256>>
                  \o [i \in 1..(n - k - 1) |-> ExtraByte(i)]

Stream(sc) ==
    IF sc.kind = "frame"
    THEN sc.strays \o <<0, SyncByte, sc.pid>> \o Body(sc.pid, sc.n, sc.ok)
    ELSE <<>>

\* Frames without noise carry any of PidVals and a right or a wrong checksum;
\* frames behind noise are the simulated frame with its right checksum.
Scenarios ==
    {[kind |-> "silent", strays |-> <<>>, pid |-> 0, n |-> 0, ok |-> TRUE],
     [kind |-> "endless", strays |-> <<>>, pid |-> 0, n |-> 0, ok |-> TRUE]}
    \cup {[kind |-> "frame", strays |-> <<>>, pid |-> p, n |-> n, ok |-> ok] :
             p \in PidVals, n \in 0..MaxBody, ok \in BOOLEAN}
    \cup {[kind |-> "frame", strays |-> st, pid |-> getProtectedID(SimId),
           n |-> n, ok |-> TRUE] : st \in Strays, n \in 0..MaxBody}

\* the state after construction (Lin_Interface.hpp), before the first call
InitRx ==
    /\ pc = "idle"
    /\ LinMessage = ZeroBuf /\ LinMessageID = 0 /\ LinMessageSize = 0
    /\ arg = 0 /\ dataLen = 0 /\ cksum = 0 /\ swaps = 0
    /\ ProtectedID = 0 /\ bytes_received = -4
    /\ ChecksumValid = FALSE /\ timedOut = FALSE
    /\ scn \in Scenarios
    /\ wire = Stream(scn) /\ rxbuf = <<>>
    /\ txn = 0 /\ byteSeen = FALSE /\ collected = 0
    /\ parsedAny = FALSE /\ drained = 0 /\ gapped = "no" /\ stored = <<>>
    /\ IdleTx

(***************************************************************************)
(* The transport                                                           *)
(***************************************************************************)
\* the next byte of the bus reaches the FIFO
Arrive ==
    /\ wire # <<>>
    /\ rxbuf' = Append(rxbuf, Head(wire))
    /\ wire' = Tail(wire)
    /\ byteSeen' = TRUE
    /\ UNCHANGED <<pc, objVars, codecVars, localVars, scn, txn, collected,
                   parsedAny, drained, gapped>>
    /\ UNCHANGED txVars
    /\ UNCHANGED stored

\* the noise source delivers a stray byte
Stray(b) ==
    /\ scn.kind = "endless"
    /\ Len(rxbuf) < MaxFifo
    /\ rxbuf' = Append(rxbuf, b)
    /\ byteSeen' = TRUE
    /\ UNCHANGED <<pc, objVars, codecVars, localVars, wire, scn, txn, collected,
                   parsedAny, drained, gapped>>
    /\ UNCHANGED txVars
    /\ UNCHANGED stored

(***************************************************************************)
(* listenBus                                                               *)
(***************************************************************************)
\* bookkeeping of a wait that ends; expired says it ended with nothing received
GapAfter(expired) ==
    IF ~expired \/ wire = <<>> \/ gapped = "frame" THEN gapped
    ELSE IF Len(wire) < 3 + Len(Body(scn.pid, scn.n, scn.ok)) THEN "frame"
    ELSE "noise"

\* entry: the locals are initialised, the transmitter is flushed
StartListen ==
    /\ pc \in {"idle", "done"}
    /\ txn < MaxTxn
    /\ pc' = "wait"
    /\ ProtectedID' = 0
    /\ ChecksumValid' = FALSE
    /\ timedOut' = FALSE
    /\ txn' = txn + 1
    /\ byteSeen' = (rxbuf # <<>>)
    /\ collected' = 0 /\ parsedAny' = FALSE /\ drained' = 0 /\ stored' = <<>>
    /\ UNCHANGED <<objVars, codecVars, bytes_received, busVars, gapped>>
    /\ UNCHANGED txVars

\* the wait loop ends because a byte is available
WaitAvailable ==
    /\ pc = "wait"
    /\ rxbuf # <<>>
    /\ bytes_received' = -4
    /\ pc' = "loop"
    /\ UNCHANGED <<objVars, codecVars, ProtectedID, ChecksumValid, timedOut,
                   busVars, ghostVars>>
    /\ UNCHANGED txVars

\* the wait loop ends because timeoutAt < millis() with nothing available
WaitTimeout ==
    /\ pc = "wait"
    /\ rxbuf = <<>>
    /\ timedOut' = TRUE
    /\ bytes_received' = -4
    /\ pc' = "loop"
    /\ gapped' = GapAfter(TRUE)
    /\ UNCHANGED <<objVars, codecVars, ProtectedID, ChecksumValid, busVars,
                   txn, byteSeen, collected, parsedAny, drained>>
    /\ UNCHANGED txVars
    /\ UNCHANGED stored

\* mutant: the state after the sync byte is tested before the byte value
HeaderNext_pidFirst(br, buffer) ==
    IF br = -2 THEN 0
    ELSE IF buffer = 0 THEN -3
    ELSE IF buffer = SyncByte /\ br = -3 THEN -2
    ELSE -4

\* cases -4 .. -1 of the switch: the next value of bytes_received
HeaderNext(br, buffer) ==
    IF buffer = 0 THEN -3
    ELSE IF buffer = SyncByte /\ br = -3 THEN -2
    ELSE IF buffer # 0 /\ br = -3 THEN -4
    ELSE IF br = -2 THEN 0
    ELSE -4

\* mutant: a byte equal to the sync byte is never stored as the identifier
HeaderIsPid_notSync(br, buffer) ==
    /\ buffer # 0
    /\ buffer # SyncByte
    /\ br = -2

\* cases -4 .. -1 of the switch: the branch that stores the identifier is taken
HeaderIsPid(br, buffer) ==
    /\ buffer # 0
    /\ ~(buffer = SyncByte /\ br = -3)
    /\ ~(buffer # 0 /\ br = -3)
    /\ br = -2

\* one pass of the receive loop that reads a byte
LoopRead ==
    /\ pc = "loop"
    /\ rxbuf # <<>>
    /\ bytes_received < MaxReceived
    /\ LET buffer == Head(rxbuf) IN
         IF bytes_received < 0
         THEN /\ bytes_received' = HeaderNext(bytes_received, buffer)
              /\ ProtectedID' = IF HeaderIsPid(bytes_received, buffer)
                                THEN buffer ELSE ProtectedID
              /\ UNCHANGED <<LinMessage, collected, stored>>
         ELSE /\ LinMessage' = [LinMessage EXCEPT ![bytes_received] = buffer]
              /\ bytes_received' = bytes_received + 1
              /\ collected' = collected + 1
              /\ stored' = Append(stored, buffer)
              /\ UNCHANGED ProtectedID
    /\ rxbuf' = Tail(rxbuf)
    /\ parsedAny' = TRUE
    /\ pc' = IF Tail(rxbuf) = <<>> THEN "gap" ELSE "loop"
    /\ UNCHANGED <<LinMessageID, LinMessageSize, codecVars, ChecksumValid, timedOut,
                   wire, scn, txn, byteSeen, drained, gapped>>
    /\ UNCHANGED txVars

\* the receive loop is left with a byte available: 9 bytes are stored
LoopBreak ==
    /\ pc = "loop"
    /\ rxbuf # <<>>
    /\ bytes_received >= MaxReceived
    /\ pc' = "drain"
    /\ UNCHANGED <<objVars, codecVars, localVars, busVars, ghostVars>>
    /\ UNCHANGED txVars

\* the receive loop ends: nothing is available
LoopExit ==
    /\ pc = "loop"
    /\ rxbuf = <<>>
    /\ pc' = "drain"
    /\ UNCHANGED <<objVars, codecVars, localVars, busVars, ghostVars>>
    /\ UNCHANGED txVars

\* delay(2) returns
GapEnd ==
    /\ pc = "gap"
    /\ pc' = "loop"
    /\ gapped' = GapAfter(rxbuf = <<>>)
    /\ UNCHANGED <<objVars, codecVars, localVars, busVars, txn, byteSeen,
                   collected, parsedAny, drained>>
    /\ UNCHANGED txVars
    /\ UNCHANGED stored

\* the drain loop reads and discards a byte
DrainRead ==
    /\ pc = "drain"
    /\ rxbuf # <<>>
    /\ rxbuf' = Tail(rxbuf)
    /\ drained' = IF drained < MaxBody THEN drained + 1 ELSE drained
    /\ UNCHANGED <<pc, objVars, codecVars, localVars, wire, scn, txn, byteSeen,
                   collected, parsedAny, gapped>>
    /\ UNCHANGED txVars
    /\ UNCHANGED stored

\* the drain loop ends: nothing is available
DrainExit ==
    /\ pc = "drain"
    /\ rxbuf = <<>>
    /\ pc' = "verify"
    /\ UNCHANGED <<objVars, codecVars, localVars, busVars, ghostVars>>
    /\ UNCHANGED txVars

\* mutant: the length is assigned without the test, (uint8_t)bytes_received
ReportedSize_untested(n) == n % 256

\* mutant: the checksum byte is not counted
ReportedSize_dataOnly(n) == IF n > 0 THEN n - 1 ELSE 0

\* the length reported for bytes_received = n
ReportedSize(n) == IF n > 0 THEN n ELSE 0

\* mutant: the checksum is computed over all stored bytes, the last included
CheckedLen_all(n) == n

\* the number of bytes the checksum is computed over, for bytes_received = n
CheckedLen(n) == n - 1

\* mutant: the identifier is reported with its parity bits
ReportedID_raw(pid) == pid

\* the identifier reported for the protected identifier pid: ProtectedID & 0x3F
ReportedID(pid) == pid % 64

\* checksum verification and the result members; listenBus returns
VerifyChecksum ==
    /\ pc = "verify"
    /\ ChecksumValid' =
         IF bytes_received > 0
         THEN ChecksumOK(LinMessage[bytes_received - 1],
                         getChecksum(ProtectedID, CheckedLen(bytes_received)))
         ELSE ChecksumValid
    /\ LinMessageSize' = ReportedSize(bytes_received)
    /\ LinMessageID' = ReportedID(ProtectedID)
    /\ pc' = "done"
    /\ UNCHANGED <<LinMessage, codecVars, ProtectedID, bytes_received, timedOut,
                   busVars, ghostVars>>
    /\ UNCHANGED txVars

\* the steps of listenBus
Listen ==
    \/ WaitAvailable
    \/ WaitTimeout
    \/ LoopRead
    \/ LoopBreak
    \/ LoopExit
    \/ GapEnd
    \/ DrainRead
    \/ DrainExit
    \/ VerifyChecksum

NextRx ==
    \/ Arrive
    \/ \E b \in StrayVals : Stray(b)
    \/ StartListen
    \/ Listen

SpecRx == InitRx /\ [][NextRx]_vars

\* listenBus is never suspended for good while it has a step to take
SpecRxFair == SpecRx /\ WF_vars(Listen)

(***************************************************************************)
(* The simulated frame of listenBus (LINSIMULATION): the state right after *)
(* the block that builds it, with one payload byte possibly altered before *)
(* the verification.                                                       *)
(***************************************************************************)
SimFrame ==
    [BufOf(SimBuf) EXCEPT ![MaxData] = ChecksumOf(BufOf(SimBuf), SimId, MaxReceived - 1)]

InitSim ==
    /\ pc = "drain"
    /\ LinMessage = SimFrame
    /\ LinMessageID = SimId /\ LinMessageSize = MaxReceived
    /\ bytes_received = MaxReceived
    /\ ProtectedID = SimId
    /\ ChecksumValid = FALSE /\ timedOut = FALSE
    /\ arg = 0 /\ dataLen = 0 /\ cksum = 0 /\ swaps = 0
    /\ scn = [kind |-> "silent", strays |-> <<>>, pid |-> 0, n |-> 0, ok |-> TRUE]
    /\ wire = <<>> /\ rxbuf = <<>>
    /\ txn = 1 /\ byteSeen = FALSE /\ collected = 0
    /\ parsedAny = FALSE /\ drained = 0 /\ gapped = "no" /\ stored = <<>>
    /\ IdleTx

\* payload byte i of the untouched frame is replaced by a different value v
Corrupt(i, v) ==
    /\ pc = "drain"
    /\ LinMessage = SimFrame
    /\ v # LinMessage[i]
    /\ LinMessage' = [LinMessage EXCEPT ![i] = v]
    /\ UNCHANGED <<pc, LinMessageID, LinMessageSize, codecVars, localVars,
                   busVars, ghostVars>>
    /\ UNCHANGED txVars

NextSim ==
    \/ \E i \in 0..(MaxData - 1), v \in Byte : Corrupt(i, v)
    \/ DrainExit
    \/ VerifyChecksum

SpecSim == InitSim /\ [][NextSim]_vars

(***************************************************************************)
(* The transmit side: writeFrame, writeFrameClassic and the header of      *)
(* readFrame.  A transmit function is the sequence of transport calls it   *)
(* makes; the UART shifts the written bytes out on its own, at the rate it *)
(* is set to when a byte leaves, and the transceiver echoes what is sent.  *)
(***************************************************************************)
Begin(b)   == [op |-> "begin", v |-> b]
Flush      == [op |-> "flush", v |-> 0]
SetBaud(b) == [op |-> "baud",  v |-> b]
Write(b)   == [op |-> "write", v |-> b]
End        == [op |-> "end",   v |-> 0]

\* setupSerial: begin(baud, SERIAL_8N1 ...)
setupSerialOps(b) == <<Begin(b)>>

\* mutant: the break byte is not flushed before the rate is restored
writeBreakOps_noFlush(b) == <<Flush, SetBaud(b \div 2), Write(0), SetBaud(b)>>

\* writeBreak: baud >> 1 is the half rate
writeBreakOps(b) == <<Flush, SetBaud(b \div 2), Write(0), Flush, SetBaud(b)>>

\* mutant: the identifier is written before the sync byte
startTransmissionOps_pidFirst(b, pid) ==
    setupSerialOps(b) \o writeBreakOps(b) \o <<Write(pid), Write(SyncByte)>>

startTransmissionOps(b, pid) ==
    setupSerialOps(b) \o writeBreakOps(b) \o <<Write(SyncByte), Write(pid)>>

\* for (i = 0; i < dataLen; ++i) write(LinMessage[i])
DataWrites(msg, len) == [i \in 1..len |-> Write(msg[i - 1])]

\* writeFrame up to the last write
writeFrameOps(b, msg, fid, len) ==
    startTransmissionOps(b, getProtectedID(fid))
        \o DataWrites(msg, len)
        \o <<Write(ChecksumOf(msg, getProtectedID(fid), len))>>

\* mutant: the checksum is seeded with the protected identifier
writeFrameClassicOps_seeded(b, msg, fid, len) ==
    writeFrameOps(b, msg, fid, len) \o <<Flush, End>>

writeFrameClassicOps(b, msg, fid, len) ==
    startTransmissionOps(b, getProtectedID(fid))
        \o DataWrites(msg, len)
        \o <<Write(ChecksumOf(msg, 0, len)), Flush, End>>

\* readFrame: the header, its flush, the flush of listenBus, end
readFrameOps(b, fid) ==
    startTransmissionOps(b, getProtectedID(fid)) \o <<Flush, Flush, End>>

\* the bytes written by a sequence of transport calls
RECURSIVE Writes(_)
Writes(ops) ==
    IF ops = <<>> THEN <<>>
    ELSE IF Head(ops).op = "write" THEN <<Head(ops).v>> \o Writes(Tail(ops))
    ELSE Writes(Tail(ops))

BaudVals == {DefaultBaud, 9600}

\* Echo scenarios: the first echo bytes sent are read back, as sent ("clean"),
\* with the checksum byte off by one ("sum"), with the first data byte off by
\* one and the checksum byte that fits it ("data"), or with the identifier
\* off by one ("pid"); extra further bytes
\* reach the receiver after the frame; slow says that bytes may still be in
\* the transmit queue when delay(10) returns.
TxExtra   == MaxExtra + 2
EchoAll   == 4 + MaxData
EchoIds   == {SimId, ClassicFrom}
EchoLens  == {0, 2, MaxData}
PlainEcho == [kind |-> "tx", echo |-> EchoAll, alter |-> "clean", extra |-> 0,
              slow |-> FALSE]
TxScenarios ==
    {[kind |-> "tx", echo |-> e, alter |-> "clean", extra |-> 0, slow |-> sl] :
        e \in 0..EchoAll, sl \in BOOLEAN}
    \cup {[kind |-> "tx", echo |-> EchoAll, alter |-> a, extra |-> x, slow |-> sl] :
        a \in {"clean", "sum", "data", "pid"}, x \in {0, TxExtra}, sl \in BOOLEAN}

\* values an out-of-bounds read of the object may deliver
UBVals == ByteVals

InitTx ==
    /\ pc = "ready"
    /\ LinMessage = BufOf(SimBuf) /\ LinMessageID = 0 /\ LinMessageSize = 0
    /\ arg = 0 /\ dataLen = 0 /\ cksum = 0 /\ swaps = 0
    /\ ProtectedID = 0 /\ bytes_received = 0
    /\ ChecksumValid = FALSE /\ timedOut = FALSE
    /\ scn \in TxScenarios
    /\ wire = [i \in 1..scn.extra |-> ExtraByte(i)] /\ rxbuf = <<>>
    /\ txn = 0 /\ byteSeen = FALSE /\ collected = 0
    /\ parsedAny = FALSE /\ drained = 0 /\ gapped = "no" /\ stored = <<>>
    /\ baud \in IF scn = PlainEcho THEN BaudVals ELSE {DefaultBaud}
    /\ linerate = DefaultBaud
    /\ todo = <<>> /\ txq = <<>> /\ txlog = <<>> /\ sentlog = <<>>
    /\ RX_Sync = 0 /\ RX_ProtectedID = 0 /\ moreData = FALSE
    /\ Checksum_received = 0 /\ ChkSumCalc = 0 /\ mismatch = FALSE
    /\ idxMin = 0 /\ idxMax = 0

rxVars == <<LinMessageID, LinMessageSize, swaps, ChecksumValid, timedOut,
            scn, byteSeen, collected, parsedAny, drained, gapped>>

Min(a, b) == IF a < b THEN a ELSE b
Max(a, b) == IF a > b THEN a ELSE b

\* writeFrame(FrameID, dataLen) is entered: lines 215-216
CallWriteFrame(fid, len) ==
    /\ pc = "ready"
    /\ scn = PlainEcho \/ (fid \in EchoIds /\ len \in EchoLens)
    /\ pc' = "writeFrame"
    /\ arg' = fid /\ dataLen' = len
    /\ ProtectedID' = getProtectedID(fid)
    /\ cksum' = getChecksum(getProtectedID(fid), len)
    /\ idxMax' = Max(idxMax, len - 1)
    /\ todo' = writeFrameOps(baud, LinMessage, fid, len)
    /\ stored' = [i \in 1..len |-> LinMessage[i - 1]]
    /\ txn' = txn + 1
    /\ UNCHANGED <<LinMessage, rxVars, bytes_received, rxbuf, wire, baud, txq,
                   linerate, txlog, sentlog, RX_Sync, RX_ProtectedID, moreData,
                   Checksum_received, ChkSumCalc, mismatch, idxMin>>

\* writeFrameClassic(FrameID, dataLen) is entered: lines 304-305
CallWriteFrameClassic(fid, len) ==
    /\ pc = "ready"
    /\ scn = PlainEcho
    /\ pc' = "writeFrameClassic"
    /\ arg' = fid /\ dataLen' = len
    /\ ProtectedID' = getProtectedID(fid)
    /\ cksum' = getChecksum(0, len)
    /\ todo' = writeFrameClassicOps(baud, LinMessage, fid, len)
    /\ stored' = [i \in 1..len |-> LinMessage[i - 1]]
    /\ txn' = txn + 1
    /\ UNCHANGED <<LinMessage, rxVars, bytes_received, rxbuf, wire, baud, txq,
                   linerate, txlog, sentlog, echoVars>>

\* readFrame(FrameID) is entered: line 198
CallReadFrame(fid) ==
    /\ pc = "ready"
    /\ scn = PlainEcho
    /\ pc' = "readFrame"
    /\ arg' = fid
    /\ ProtectedID' = getProtectedID(fid)
    /\ todo' = readFrameOps(baud, fid)
    /\ txn' = txn + 1
    /\ UNCHANGED <<LinMessage, rxVars, dataLen, cksum, bytes_received, rxbuf, wire,
                   stored, baud, txq, linerate, txlog, sentlog, echoVars>>

\* the running function makes its next transport call; flush returns when
\* the transmit queue is empty, end shuts the receiver down
TransportCall ==
    /\ pc \in {"writeFrame", "writeFrameClassic", "readFrame", "writeFrameEnd"}
    /\ todo # <<>>
    /\ LET c == Head(todo) IN
         /\ c.op = "flush" => txq = <<>>
         /\ txq' = IF c.op = "write" THEN Append(txq, c.v) ELSE txq
         /\ linerate' = IF c.op \in {"begin", "baud"} THEN c.v ELSE linerate
         /\ rxbuf' = IF c.op = "end" THEN <<>> ELSE rxbuf
         /\ txlog' = Append(txlog, c)
    /\ todo' = Tail(todo)
    /\ UNCHANGED <<pc, objVars, codecVars, localVars, wire, scn, ghostVars,
                   baud, sentlog, echoVars>>

\* what the receiver reads back of the k-th byte sent, b
EchoOf(k, b) ==
    LET sent == Writes(txlog)
        last == 4 + dataLen
        pay  == [i \in 1..dataLen |-> IF i = 1 THEN (sent[4] + 1) % 256 ELSE sent[3 + i]]
    IN  IF scn.alter = "sum" /\ k = last THEN (b + 1) % 256
        ELSE IF scn.alter = "pid" /\ k = 3 THEN (b + 1) % 256
        ELSE IF scn.alter = "data" /\ dataLen > 0 /\ k = 4 THEN (b + 1) % 256
        ELSE IF scn.alter = "data" /\ dataLen > 0 /\ k = last
             THEN ChecksumOf(BufOf(pay), sent[3], dataLen)
        ELSE b

\* the UART shifts the next byte out at the rate it is running at
Transmit ==
    /\ txq # <<>>
    /\ sentlog' = Append(sentlog, <<Head(txq), linerate>>)
    /\ txq' = Tail(txq)
    /\ rxbuf' = IF Len(sentlog) + 1 <= scn.echo
                THEN Append(rxbuf, EchoOf(Len(sentlog) + 1, Head(txq)))
                ELSE rxbuf
    /\ UNCHANGED <<pc, objVars, codecVars, localVars, wire, scn, ghostVars,
                   baud, todo, linerate, txlog, echoVars>>

\* a further byte reaches the receiver once the frame has left
Answer ==
    /\ pc \in {"echoBreak", "echoSync", "echoPid", "echoData"}
    /\ txq = <<>>
    /\ wire # <<>>
    /\ rxbuf' = Append(rxbuf, Head(wire))
    /\ wire' = Tail(wire)
    /\ UNCHANGED <<pc, objVars, codecVars, localVars, scn, ghostVars, txVars>>

\* delay(10) returns: line 227
Delay10 ==
    /\ pc = "writeFrame"
    /\ todo = <<>>
    /\ scn.slow \/ txq = <<>>
    /\ pc' = "echoBreak"
    /\ UNCHANGED <<objVars, codecVars, localVars, busVars, ghostVars, txVars>>

\* lines 232-236: the break is read and discarded if a byte is available
EchoBreak ==
    /\ pc = "echoBreak"
    /\ rxbuf' = IF rxbuf # <<>> THEN Tail(rxbuf) ELSE rxbuf
    /\ pc' = "echoSync"
    /\ UNCHANGED <<objVars, codecVars, localVars, wire, scn, ghostVars, txVars>>

\* lines 238-242
EchoSync ==
    /\ pc = "echoSync"
    /\ RX_Sync' = IF rxbuf # <<>> THEN Head(rxbuf) ELSE 0
    /\ rxbuf' = IF rxbuf # <<>> THEN Tail(rxbuf) ELSE rxbuf
    /\ pc' = "echoPid"
    /\ UNCHANGED <<objVars, codecVars, localVars, wire, scn, ghostVars, uartVars,
                   RX_ProtectedID, moreData, Checksum_received, ChkSumCalc,
                   mismatch, idxMin, idxMax>>

\* lines 244-251
EchoPid ==
    /\ pc = "echoPid"
    /\ RX_ProtectedID' = IF rxbuf # <<>> THEN Head(rxbuf) ELSE 0
    /\ rxbuf' = IF rxbuf # <<>> THEN Tail(rxbuf) ELSE rxbuf
    /\ moreData' = FALSE
    /\ bytes_received' = 0
    /\ pc' = "echoData"
    /\ UNCHANGED <<objVars, codecVars, ProtectedID, ChecksumValid, timedOut, wire,
                   scn, ghostVars, uartVars, RX_Sync, Checksum_received,
                   ChkSumCalc, mismatch, idxMin, idxMax>>

\* lines 252-262: a byte is available and stored
EchoStore ==
    /\ pc = "echoData"
    /\ rxbuf # <<>>
    /\ bytes_received < EchoLimit
    /\ LinMessage' = [LinMessage EXCEPT ![bytes_received] = Head(rxbuf)]
    /\ idxMax' = Max(idxMax, bytes_received)
    /\ bytes_received' = bytes_received + 1
    /\ rxbuf' = Tail(rxbuf)
    /\ UNCHANGED <<pc, LinMessageID, LinMessageSize, codecVars, ProtectedID,
                   ChecksumValid, timedOut, wire, scn, ghostVars, uartVars,
                   RX_Sync, RX_ProtectedID, moreData, Checksum_received,
                   ChkSumCalc, mismatch, idxMin>>

\* lines 254-259: a byte is available and the buffer is full
EchoMore ==
    /\ pc = "echoData"
    /\ rxbuf # <<>>
    /\ bytes_received >= EchoLimit
    /\ moreData' = TRUE
    /\ pc' = "echoLast"
    /\ UNCHANGED <<objVars, codecVars, localVars, busVars, ghostVars, uartVars,
                   RX_Sync, RX_ProtectedID, Checksum_received, ChkSumCalc,
                   mismatch, idxMin, idxMax>>

\* line 252: nothing is available
EchoDone ==
    /\ pc = "echoData"
    /\ rxbuf = <<>>
    /\ pc' = "echoLast"
    /\ UNCHANGED <<objVars, codecVars, localVars, busVars, ghostVars, txVars>>

\* lines 264-269: Checksum_received = LinMessage[bytes_received - 1],
\* bytes_received--; flush and end follow.  An index outside the buffer
\* delivers whatever lies there.
EchoLast ==
    /\ pc = "echoLast"
    /\ LET i == bytes_received - 1 IN
         /\ idxMin' = Min(idxMin, i)
         /\ IF i \in BufIndex
            THEN Checksum_received' = LinMessage[i]
            ELSE Checksum_received' \in UBVals
    /\ bytes_received' = bytes_received - 1
    /\ todo' = <<Flush, End>>
    /\ pc' = "writeFrameEnd"
    /\ UNCHANGED <<objVars, codecVars, ProtectedID, ChecksumValid, timedOut,
                   busVars, ghostVars, baud, txq, linerate, txlog, sentlog,
                   RX_Sync, RX_ProtectedID, moreData, ChkSumCalc, mismatch, idxMax>>

\* mutant: the received checksum is compared with the transmitted one
Flagged_sent(received, calc, sent) == received # sent

\* lines 285-288: the condition of the diagnostic, which prints calc and sent
Flagged(received, calc, sent) == received # calc

\* the uint8_t dataLen that getChecksum receives for bytes_received = n
EchoChecked(n) == n % 256

\* lines 272-296: getChecksum(RX_ProtectedID, (uint8_t)bytes_received) and
\* the report; the diagnostic is printed when the two checksums differ.  A
\* length beyond the buffer sums whatever lies behind it.
EchoReport ==
    /\ pc = "writeFrameEnd"
    /\ todo = <<>>
    /\ LET len == EchoChecked(bytes_received) IN
         /\ idxMax' = Max(idxMax, len - 1)
         /\ IF len <= BufSize
            THEN ChkSumCalc' = getChecksum(RX_ProtectedID, len)
            ELSE ChkSumCalc' \in UBVals
    /\ mismatch' = Flagged(Checksum_received, ChkSumCalc', cksum)
    /\ pc' = "writeFrameDone"
    /\ UNCHANGED <<objVars, codecVars, localVars, busVars, ghostVars, uartVars,
                   RX_Sync, RX_ProtectedID, moreData, Checksum_received, idxMin>>

\* writeFrameClassic or readFrame returns
Return ==
    /\ pc \in {"writeFrameClassic", "readFrame"}
    /\ todo = <<>>
    /\ pc' = IF pc = "readFrame" THEN "readFrameDone" ELSE "writeFrameClassicDone"
    /\ UNCHANGED <<objVars, codecVars, localVars, busVars, ghostVars, txVars>>

\* the caller starts a transaction with any identifier and length
Call ==
    /\ pc = "ready"
    /\ \/ \E fid \in 0..63, len \in 0..MaxData : CallWriteFrame(fid, len)
       \/ \E fid \in 0..63, len \in 0..MaxData : CallWriteFrameClassic(fid, len)
       \/ \E fid \in 0..63 : CallReadFrame(fid)

NextTx ==
    \/ Call
    \/ TransportCall
    \/ Transmit
    \/ Answer
    \/ Delay10
    \/ EchoBreak
    \/ EchoSync
    \/ EchoPid
    \/ EchoStore
    \/ EchoMore
    \/ EchoDone
    \/ EchoLast
    \/ EchoReport
    \/ Return

SpecTx == InitTx /\ [][NextTx]_vars

(***************************************************************************)
(* Loopback: the bytes writeFrame sends for an identifier and a payload    *)
(* are what the bus delivers to one call of listenBus of a fresh object.   *)
(***************************************************************************)
InitLoop ==
    /\ pc = "idle"
    /\ LinMessage = ZeroBuf /\ LinMessageID = 0 /\ LinMessageSize = 0
    /\ arg \in 0..63 /\ dataLen \in 0..MaxData
    /\ cksum = ChecksumOf(BufOf(SimBuf), getProtectedID(arg), dataLen)
    /\ swaps = 0
    /\ ProtectedID = 0 /\ bytes_received = -4
    /\ ChecksumValid = FALSE /\ timedOut = FALSE
    /\ scn = [kind |-> "frame", strays |-> <<>>, pid |-> getProtectedID(arg),
              n |-> dataLen + 1, ok |-> TRUE]
    /\ wire = Writes(writeFrameOps(DefaultBaud, BufOf(SimBuf), arg, dataLen))
    /\ rxbuf = <<>>
    /\ txn = 0 /\ byteSeen = FALSE /\ collected = 0
    /\ parsedAny = FALSE /\ drained = 0 /\ gapped = "no" /\ stored = <<>>
    /\ IdleTx

\* the one call of listenBus
ListenOnce == txn = 0 /\ StartListen

NextLoop ==
    \/ Arrive
    \/ ListenOnce
    \/ WaitAvailable
    \/ WaitTimeout
    \/ LoopRead
    \/ LoopExit
    \/ GapEnd
    \/ DrainRead
    \/ DrainExit
    \/ VerifyChecksum

SpecLoop == InitLoop /\ [][NextLoop]_vars

(***************************************************************************)
(* Properties of the codec                                                 *)
(***************************************************************************)
\* sum of the first len bytes of msg, from index 0 upwards, unbounded
RECURSIVE SumFrom(_, _, _)
SumFrom(msg, i, len) == IF i >= len THEN 0 ELSE msg[i] + SumFrom(msg, i + 1, len)

PayloadSum == SumFrom(LinMessage, 0, dataLen)

\* end-around-carry value of a sum: 0 for 0, else the residue in 1..255
OnesFold(s) == IF s = 0 THEN 0 ELSE ((s - 1) % 255) + 1

\* C1: for every frameId in 0..63 the protected identifier is a byte whose low
\* six bits are frameId, whose bit 6 is bit0 xor bit1 xor bit2 xor bit4 and whose
\* bit 7 is the complement of bit1 xor bit3 xor bit4 xor bit5.
C1_ProtectedIdParity ==
    (pc = "frame" /\ arg \in 0..63) =>
        /\ ProtectedID \in Byte
        /\ ProtectedID % 64 = arg
        /\ (ProtectedID \div 64) % 2
             = (arg + (arg \div 2) + (arg \div 4) + (arg \div 16)) % 2
        /\ (ProtectedID \div 128) % 2
             = 1 - (((arg \div 2) + (arg \div 8) + (arg \div 16) + (arg \div 32)) % 2)

\* frameId 0x22 gives the protected identifier 0xE2
C1_Witness == pc = "frame" /\ arg = 34 /\ ProtectedID = 226

\* C3: with the seed getProtectedID(frameId), identifiers 0..0x3B give the
\* complement of the folded sum of protected identifier and payload, which is
\* not the classic checksum of the payload; identifiers 0x3C..0x3F give the
\* classic checksum, the complement of the folded sum of the payload alone.
C3_ModeSelection ==
    (pc = "frame" /\ arg \in 0..63) =>
        IF arg < 60
        THEN /\ cksum = 255 - OnesFold(ProtectedID + PayloadSum)
             /\ cksum # getChecksum(0, dataLen)
        ELSE /\ cksum = getChecksum(0, dataLen)
             /\ cksum = 255 - OnesFold(PayloadSum)

\* the boundary identifier 0x3C with the full payload of the simulated frame
C3_Witness ==
    /\ pc = "frame" /\ arg = 60 /\ dataLen = 8 /\ swaps = 0
    /\ LinMessage[0] = 171
    /\ ProtectedID = 60
    /\ cksum = 255 - OnesFold(PayloadSum)

\* C4: exchanging payload bytes in the buffer never changes the checksum of the
\* same seed and length.
C4_OrderInvariant == [][swaps' = swaps + 1 => cksum' = cksum]_vars

\* the first two bytes of the simulated frame, exchanged, under seed 0x22
C4_Witness ==
    /\ pc = "checksum" /\ arg = 34 /\ dataLen = 8 /\ swaps = 1
    /\ LinMessage[0] = 132 /\ LinMessage[1] = 171
    /\ cksum = 24

\* the receive-side validity test applied to a checksum byte c, given the
\* checksum k computed from seed and payload
ValidByTest(c, k) == ChecksumOK(c, k)

\* the folded sum of s (mode-adjusted seed plus payload bytes) and c is 0xFF
ValidBySum(c, s) == OnesFold(s + c) = 255

SeedAndPayload == ModeSeed(ProtectedID) + PayloadSum

\* C5 as claimed: after getChecksum(seed, payload) on any caller-filled
\* buffer, the two formulations of validity agree for every checksum byte.
C5_FormulationsAgree ==
    (pc = "checksum" /\ swaps = 0) =>
        LET s == SeedAndPayload
        IN  \A c \in Byte : ValidByTest(c, cksum) <=> ValidBySum(c, s)

\* C5 amended: they agree except for the checksum byte 0xFF when seed and
\* payload already fold to 0xFF (computed checksum 0x00): the sum accepts
\* it, the test accepts only 0x00.
C5_AgreeExceptFF ==
    (pc = "checksum" /\ swaps = 0) =>
        LET s == SeedAndPayload
        IN  \A c \in Byte :
                ValidByTest(c, cksum) <=> (ValidBySum(c, s) /\ ~(c = 255 /\ cksum = 0))

\* a payload folding to 0xFF: the byte 0xFF passes the sum and fails the test
C5_Witness ==
    /\ pc = "checksum" /\ swaps = 0 /\ arg = 0 /\ dataLen = 1 /\ LinMessage[0] = 255
    /\ cksum = 0
    /\ ValidBySum(255, SeedAndPayload) /\ ~ValidByTest(255, cksum)
    /\ ValidBySum(0, SeedAndPayload) /\ ValidByTest(0, cksum)

(***************************************************************************)
(* Properties of the simulated frame                                       *)
(***************************************************************************)
\* C2: the checksum of seed 0x22 over the payload AB 84 1E F4 2E 84 7A 55 is
\* 0x18; the verification accepts the checksum byte 0x18 for the untouched
\* payload and rejects it once any single payload byte has another value.
C2_RoundTrip ==
    /\ LinMessage[MaxData] = 24
    /\ pc = "done" =>
         (ChecksumValid <=> \A i \in 0..(MaxData - 1) : LinMessage[i] = SimBuf[i + 1])

\* the fourth payload byte 0xF4 received as 0x0B is rejected
C2_Witness ==
    /\ pc = "done" /\ ~ChecksumValid
    /\ LinMessage[3] = 11
    /\ \A i \in 0..(MaxData - 1) : i # 3 => LinMessage[i] = SimBuf[i + 1]

(***************************************************************************)
(* Properties of listenBus                                                 *)
(***************************************************************************)
TheBody == Body(scn.pid, scn.n, scn.ok)

\* the frame on the bus carries a protected identifier with correct parity
Genuine == scn.kind = "frame" /\ scn.pid = getProtectedID(scn.pid % 64)

\* C6: a call during which no byte was available returns false and reports
\* length 0 and identifier 0.
C6_SilentBus ==
    (pc = "done" /\ ~byteSeen) =>
        /\ ~ChecksumValid
        /\ LinMessageSize = 0
        /\ LinMessageID = 0

\* the first call on a silent bus has timed out and returned
C6_Witness ==
    /\ pc = "done" /\ txn = 1 /\ scn.kind = "silent"
    /\ ~byteSeen /\ timedOut /\ ~parsedAny
    /\ LinMessageSize = 0 /\ ~ChecksumValid

\* C7: stray non-zero bytes in front of a genuine frame of 1..9 bytes after
\* the identifier, whatever the timing of the stray bytes (the first byte
\* arrives before the timeout, the frame itself arrives without a pause):
\* the call that has received them reports the frame's identifier, holds the
\* bytes after the identifier in arrival order and returns true for a right
\* checksum.
C7_Resync ==
    (/\ pc = "done" /\ txn = 1
     /\ Genuine /\ scn.n \in 1..MaxReceived
     /\ ~timedOut /\ gapped # "frame") =>
        /\ LinMessageID = scn.pid % 64
        /\ \A i \in 0..(scn.n - 1) : LinMessage[i] = TheBody[i + 1]
        /\ scn.ok => ChecksumValid

\* C8: 12 bytes after the identifier, arriving without a pause: the first call
\* reports the first 9, has read and discarded the other 3 when it returns,
\* and the parse loop of the following call consumes none of them.
C8_Overflow ==
    (/\ scn.kind = "frame" /\ scn.strays = <<>> /\ scn.n = 12
     /\ gapped = "no") =>
        /\ (txn = 1 /\ pc = "done") =>
              /\ LinMessageSize = 9
              /\ \A i \in 0..8 : LinMessage[i] = TheBody[i + 1]
              /\ drained = 3
        /\ txn = 2 => ~parsedAny

\* C9: every call of listenBus returns.
C9_Terminates == (pc = "wait") ~> (pc = "done")

\* C10 as claimed: with n >= 1 bytes stored after the identifier the reported
\* length is n - 1.
C10_SizeIsPayload ==
    (pc = "done" /\ collected >= 1) => LinMessageSize = collected - 1

\* C10 amended: with n >= 1 bytes stored after the identifier the reported
\* length is n, the payload bytes and the checksum byte.
C10_SizeCountsChecksum ==
    (pc = "done" /\ collected >= 1) => LinMessageSize = collected

\* a full frame, 8 data bytes and a right checksum, received without a pause
C10_Witness ==
    /\ pc = "done" /\ txn = 1
    /\ Genuine /\ scn.n = 9 /\ scn.ok /\ gapped = "no"
    /\ collected = 9
    /\ LinMessageSize = 9
    /\ ChecksumValid

\* sum of the first k elements of the sequence q
RECURSIVE SeqSum(_, _)
SeqSum(q, k) == IF k = 0 THEN 0 ELSE q[k] + SeqSum(q, k - 1)

\* the last of the stored bytes is the checksum of the captured identifier and
\* of the stored bytes before it
LastValidates ==
    LET n == Len(stored)
    IN  stored[n] = 255 - OnesFold(ModeSeed(ProtectedID) + SeqSum(stored, n - 1))

\* C11: a call that stored n >= 1 bytes after the identifier returns with the
\* buffer holding these n bytes in arrival order and a non-zero length, and
\* returns true exactly when the last byte is the checksum of the captured
\* identifier and the n - 1 bytes before it; otherwise it returns false.
C11_BadChecksumKeepsBytes ==
    (pc = "done" /\ Len(stored) >= 1) =>
        /\ \A i \in 1..Len(stored) : LinMessage[i - 1] = stored[i]
        /\ LinMessageSize # 0
        /\ ChecksumValid <=> LastValidates

\* four data bytes and a checksum byte off by one: false, five bytes kept
C11_Witness ==
    /\ pc = "done" /\ txn = 1
    /\ scn.kind = "frame" /\ scn.n = 5 /\ ~scn.ok /\ gapped = "no"
    /\ stored = TheBody
    /\ ~ChecksumValid /\ ~LastValidates
    /\ LinMessageSize = 5
    /\ \A i \in 1..5 : LinMessage[i - 1] = TheBody[i]

\* C15: the reported identifier is always in 0..63, and when a call has
\* returned it is the low six bits of the protected identifier byte captured
\* in that call, 0 if the call captured none.
C15_ReportedIdMasked ==
    /\ LinMessageID \in 0..63
    /\ pc = "done" =>
         LinMessageID = IF bytes_received >= 0 THEN ProtectedID % 64 ELSE 0

\* a second call that captured 0xE2 reports 0x22
C15_Witness ==
    /\ pc = "done" /\ txn = 2
    /\ bytes_received >= 0 /\ ProtectedID = 226
    /\ LinMessageID = 34

\* the receive loop reads a byte while 0x00 0x55 has just been consumed
ReadsAfterSync ==
    /\ pc = "loop" /\ bytes_received = -2
    /\ rxbuf # <<>> /\ rxbuf' = Tail(rxbuf)

\* the byte read becomes the protected identifier, data collection starts at 0
CapturesHead ==
    /\ ProtectedID' = Head(rxbuf)
    /\ bytes_received' = 0
    /\ collected' = 0

\* C16 as claimed: after 0x00 0x55 the next byte, whatever its value, is
\* captured as the protected identifier and data collection starts at 0.
C16_AnyByteIsIdentifier == [][ReadsAfterSync => CapturesHead]_vars

\* C16 amended: after 0x00 0x55 the next byte is captured as the protected
\* identifier and data collection starts at 0 if the byte is not 0x00; a byte
\* 0x00 is taken as a new break, and no identifier is captured.
C16_NonZeroByteIsIdentifier ==
    [][ReadsAfterSync =>
          IF Head(rxbuf) # 0 THEN CapturesHead
          ELSE bytes_received' = -3 /\ ProtectedID' = ProtectedID]_vars

\* 0x00 0x55 0x00 has been read: the parser waits for a sync byte again
C16_Witness ==
    /\ txn = 1 /\ pc \in {"loop", "gap"}
    /\ scn.kind = "frame" /\ scn.strays = <<>> /\ scn.pid = 0 /\ gapped = "no"
    /\ Len(wire) + Len(rxbuf) = scn.n
    /\ bytes_received = -3 /\ ProtectedID = 0

\* the receive loop stores a byte in the message buffer
StoresByte == rxbuf # <<>> /\ stored' = Append(stored, Head(rxbuf))

\* the receive loop has 9 bytes stored, or finds the transport empty
MustStop == pc = "loop" /\ (bytes_received >= 9 \/ rxbuf = <<>>)

\* a step of the receive loop keeps to the message buffer and to its end
BoundedStep ==
    /\ StoresByte =>
          /\ bytes_received \in 0..8
          /\ LinMessage' = [LinMessage EXCEPT ![bytes_received] = Head(rxbuf)]
    /\ (MustStop /\ pc' # pc) => (pc' = "drain" /\ stored' = stored)
    /\ (pc = "loop" /\ bytes_received >= 9) => stored' = stored

\* C17: a byte is stored at an index in 0..8 and nowhere else in the buffer;
\* once 9 bytes are stored, or when the transport is empty after the
\* inter-byte delay, the receive loop stores nothing more and is left; the
\* reported length never exceeds 9, and a call that returns true reports a
\* length of at least 1.
C17_LengthBound ==
    /\ [](/\ LinMessageSize <= 9
          /\ (pc = "done" /\ ChecksumValid) => LinMessageSize >= 1)
    /\ [][BoundedStep]_vars

\* 12 bytes follow the identifier: 9 are stored, the call reports 9 and true
C17_Witness ==
    /\ pc = "done" /\ txn = 1
    /\ scn.kind = "frame" /\ scn.n = 12 /\ scn.ok /\ scn.pid = 226 /\ gapped = "no"
    /\ Len(stored) = 9 /\ bytes_received = 9
    /\ LinMessageSize = 9 /\ ChecksumValid
    /\ \A i \in 9..12 : LinMessage[i] = 0

(***************************************************************************)
(* Properties of the transmit functions                                    *)
(***************************************************************************)
InWriteFrame ==
    pc \in {"writeFrame", "echoBreak", "echoSync", "echoPid", "echoData",
            "echoLast", "writeFrameEnd", "writeFrameDone"}

\* the bytes that have left the UART, in order
SentBytes == [i \in 1..Len(sentlog) |-> sentlog[i][1]]

IsPrefix(p, q) == Len(p) <= Len(q) /\ p = SubSeq(q, 1, Len(p))

\* break byte, sync, protected identifier, the payload as it was at the
\* call (stored), and the checksum byte c
FrameOf(c) == <<0, SyncByte, getProtectedID(arg)>> \o stored \o <<c>>

EnhancedFrame == FrameOf(ChecksumOf(BufOf(stored), getProtectedID(arg), dataLen))

\* C12: the bytes writeFrame writes, and the bytes that leave the UART, are
\* at any time a prefix of: 0x00, 0x55, getProtectedID(frameId), the payload
\* bytes in order, getChecksum(getProtectedID(frameId), payload); all of them
\* are written when the last write is made, and sent when writeFrame returns.
C12_WriteFrameBytes ==
    InWriteFrame =>
        /\ Writes(txlog) \o Writes(todo) = EnhancedFrame
        /\ IsPrefix(SentBytes, Writes(txlog))
        /\ pc = "writeFrameDone" => SentBytes = EnhancedFrame

\* frame 0x22 with the 8 bytes of the simulated frame has been sent
C12_Witness ==
    /\ pc = "writeFrameDone" /\ arg = SimId /\ dataLen = MaxData
    /\ SentBytes = <<0, 85, 226, 171, 132, 30, 244, 46, 132, 122, 85, 87>>

InWriteFrameClassic == pc \in {"writeFrameClassic", "writeFrameClassicDone"}

ClassicFrame == FrameOf(ChecksumOf(BufOf(stored), 0, dataLen))

\* what writeFrame writes for the same identifier and payload
SameByWriteFrame == Writes(writeFrameOps(baud, BufOf(stored), arg, dataLen))

\* C13: writeFrameClassic writes what writeFrame writes for the same
\* identifier and payload, except that the last byte is getChecksum(0, payload)
\* for every identifier; the two byte sequences are equal exactly for the
\* identifiers 0x3C..0x3F.
C13_ClassicBytes ==
    InWriteFrameClassic =>
        /\ Writes(txlog) \o Writes(todo) = ClassicFrame
        /\ IsPrefix(SentBytes, Writes(txlog))
        /\ pc = "writeFrameClassicDone" =>
              LET other == SameByWriteFrame
                  n     == Len(other)
              IN  /\ Len(SentBytes) = n
                  /\ SubSeq(SentBytes, 1, n - 1) = SubSeq(other, 1, n - 1)
                  /\ SentBytes[n] = ChecksumOf(BufOf(stored), 0, dataLen)
                  /\ (SentBytes = other) <=> (arg >= ClassicFrom)

\* frame 0x22 with the 8 bytes of the simulated frame, classic checksum 0x3A
\* where writeFrame sends 0x57
C13_Witness ==
    /\ pc = "writeFrameClassicDone" /\ arg = SimId /\ dataLen = MaxData
    /\ SentBytes = <<0, 85, 226, 171, 132, 30, 244, 46, 132, 122, 85, 58>>
    /\ SameByWriteFrame[12] = 87

\* a transmit function is running or has returned
InTransaction == pc # "ready"

\* the transport calls of writeBreak for the configured rate
BreakBracket == <<Flush, SetBaud(baud \div 2), Write(0), Flush, SetBaud(baud)>>

\* the transport calls made and still to make
AllCalls == txlog \o todo

\* the calls of writeBreak follow the begin of setupSerial, one after the
\* other; the break byte leaves at half the configured rate and every other
\* byte at the configured rate
BracketKept ==
    InTransaction =>
        /\ pc \in {"writeFrame", "writeFrameClassic", "readFrame"} =>
              SubSeq(AllCalls, 2, 6) = BreakBracket
        /\ Len(txlog) >= 6 => SubSeq(txlog, 2, 6) = BreakBracket
        /\ \A i \in 1..Len(sentlog) :
              sentlog[i] = IF i = 1 THEN <<0, baud \div 2>>
                           ELSE <<Writes(txlog)[i], baud>>

\* the rate of the UART changes only with an empty transmit queue, and the
\* configured rate does not change
RateStep ==
    /\ linerate' # linerate => txq = <<>>
    /\ baud' = baud

\* C14: in every transaction the transport calls of writeBreak are flush,
\* rate to half the configured rate, write 0x00, flush, rate to the configured
\* rate, with no call between them; the transmit queue is empty at every rate
\* change; the break byte is the only byte sent at half rate, all others are
\* sent at the configured rate; the configured rate is never changed.
C14_BreakBracket == []BracketKept /\ [][RateStep]_vars

\* at 9600 baud the break has left at 4800 and the header at 9600
C14_Witness ==
    /\ pc = "readFrameDone" /\ baud = 9600 /\ linerate = 9600
    /\ sentlog = <<<<0, 4800>>, <<85, 9600>>, <<getProtectedID(arg), 9600>>>>
    /\ SubSeq(txlog, 2, 6) = BreakBracket

\* C18: every index writeFrame and its getChecksum call use on LinMessage
\* lies in 0..12, however many echoed bytes are available.
C18_EchoInBounds ==
    InWriteFrame => (idxMin \in BufIndex /\ idxMax \in BufIndex)

\* writeFrame has returned after reading at least one byte behind the
\* identifier: the last of them is the echoed checksum byte
EchoChecksumRead == pc = "writeFrameDone" /\ bytes_received >= 0

\* the checksum of the echoed identifier and of the echoed bytes before the
\* last one
EchoRecomputed ==
    255 - OnesFold(ModeSeed(RX_ProtectedID) + SumFrom(LinMessage, 0, bytes_received))

\* C19 as claimed: the diagnostic is raised whenever the echoed checksum byte
\* differs from the checksum byte that was transmitted.
C19_FlagsAgainstSent ==
    EchoChecksumRead =>
        (LinMessage[bytes_received] # cksum => mismatch)

\* C19 amended: the diagnostic is raised whenever the echoed checksum byte
\* differs from the checksum recomputed from the echoed identifier and the
\* echoed bytes before it.
C19_FlagsAgainstRecomputed ==
    EchoChecksumRead =>
        (LinMessage[bytes_received] # EchoRecomputed => mismatch)

\* the echoed checksum byte is off by one: it differs from the recomputed
\* checksum and the diagnostic is raised
C19_Witness ==
    /\ EchoChecksumRead /\ scn.alter = "sum" /\ scn.extra = 0 /\ ~scn.slow
    /\ arg = SimId /\ dataLen = MaxData /\ bytes_received = MaxData
    /\ RX_ProtectedID = 226
    /\ LinMessage[MaxData] = 88 /\ EchoRecomputed = 87
    /\ mismatch

(***************************************************************************)
(* Loopback                                                                *)
(***************************************************************************)
\* the call has returned and no wait of it expired while bytes were to come
DeliveredInTime == pc = "done" /\ gapped = "no" /\ ~timedOut

\* C20: the bytes writeFrame sends for frameId and a payload of 0..8 bytes,
\* delivered to listenBus without a gap: listenBus returns true, reports
\* frameId, and the buffer holds the payload followed by the checksum byte
\* that was sent.
C20_Loopback ==
    DeliveredInTime =>
        /\ ChecksumValid
        /\ LinMessageID = arg
        /\ \A i \in 0..(dataLen - 1) : LinMessage[i] = SimBuf[i + 1]
        /\ LinMessage[dataLen] = cksum

\* identifier 0x15, whose protected identifier is the sync byte 0x55, with
\* eight data bytes
C20_Witness ==
    /\ DeliveredInTime
    /\ arg = 21 /\ ProtectedID = SyncByte /\ dataLen = MaxData
    /\ ChecksumValid /\ LinMessageID = 21
    /\ LinMessage[0] = 171 /\ LinMessage[MaxData] = cksum
    /\ wire = <<>> /\ rxbuf = <<>>

====
